---- MODULE Spec2Model ----
(***************************************************************************)
(* withings-sync: the Credential Document (WithingsConfig), the OAuth2     *)
(* token session (WithingsOAuth2 / WithingsAccount) and the orchestrator   *)
(* (sync.main), as a state machine.                                        *)
(***************************************************************************)
EXTENDS Integers, Sequences, FiniteSets, TLC

VARIABLES
    file,        \* the document at WithingsConfig._config_file, as stored on disk
    config,      \* WithingsConfig._config, the in-memory document (a dict)
    pc,          \* where main() is
    args,        \* the argparse.Namespace of the current run
    today,       \* date.today() of the current run, as a day number
    start_date,  \* main's start_date (a Python value; None before it is computed)
    end_date,    \* main's end_date
    source,      \* the measure groups that exist at the measurement source
    height,      \* what get_height returned to main
    groups,      \* what get_measurements returned to main
    fit,         \* <<fit_data_weight, fit_data_blood_pressure>> of main
    log,         \* the external calls of the current run, in order
    file0,       \* the on-disk document when the current run started
    runs         \* number of process starts so far

vars == <<file, config, pc, args, today, start_date, end_date, source, height,
          groups, fit, log, file0, runs>>

-----------------------------------------------------------------------------
(* Bounds of the model *)

MaxRuns == 2     \* process starts in one behaviour
MaxDay == 2      \* the calendar runs over days 1..MaxDay
MaxGroups == 2   \* measure groups that exist at the source

-----------------------------------------------------------------------------
(* Python values: None, str and int are different values ("" is not None,  *)
(* str(None) is the string "None").                                        *)

None == [tag |-> "none", s |-> "", n |-> 0]
Str(x) == [tag |-> "str", s |-> x, n |-> 0]
Num(x) == [tag |-> "int", s |-> "", n |-> x]
\* a float, held as its number of hundredths
Flt(h) == [tag |-> "float", s |-> "", n |-> h]

IsNone(v) == v.tag = "none"

\* len(v) == 0 for a str
IsEmptyStr(v) == v.tag = "str" /\ v.s = ""

\* bool(v): the truth value Python gives a value in an if
Truthy(v) ==
    CASE v.tag = "none" -> FALSE
      [] v.tag = "str" -> v.s # ""
      [] OTHER -> v.n # 0

Digits == <<"0", "1", "2", "3", "4", "5", "6", "7", "8", "9">>

\* str(v) as used at withings2.py:213
PyStr(v) ==
    CASE v.tag = "none" -> Str("None")
      [] v.tag = "str" -> v
      [] OTHER -> Str(Digits[(v.n % 10) + 1])

Range(seq) == {seq[i] : i \in DOMAIN seq}

\* the empty dict
EmptyDict == [k \in {} |-> None]

\* d.get(k, default)
DictGet(d, k, default) == IF k \in DOMAIN d THEN d[k] ELSE default

\* d[k] = v
DictSet(d, k, v) == [x \in DOMAIN d \cup {k} |-> IF x = k THEN v ELSE d[x]]

\* a.update(b): the keys of both, b's value where both have the key
DictUpdate(a, b) ==
    [k \in DOMAIN a \cup DOMAIN b |-> IF k \in DOMAIN b THEN b[k] ELSE a[k]]

-----------------------------------------------------------------------------
(* The Credential Document *)

TemplateKeys ==
    {"callback_url", "client_id", "consumer_secret", "access_token",
     "authentification_code", "refresh_token", "userid",
     "last_update_garmin", "last_update_trainerroad"}

config_template ==
    [k \in TemplateKeys |->
        CASE k = "callback_url" -> Str("https://jaroslawhartman.github.io/withings-sync/contrib/withings.html")
          [] k = "client_id" -> Str("183e03e1f363110b3551f96765c98c10e8f1aa647a37067a1cb64bbbaf491626")
          [] k = "consumer_secret" -> Str("a75d655c985d9e6391df1514c16719ef7bd69fa7c5d3fd0eac2e2b0ed48f1765")
          [] k \in {"last_update_garmin", "last_update_trainerroad"} -> None
          [] OTHER -> Str("")]

\* The keys a document can hold, in the order sort_keys=True writes them.
\* "last_sync" is a key of documents written by earlier versions of the tool.
SortedKeys ==
    <<"access_token", "authentification_code", "callback_url", "client_id",
      "consumer_secret", "last_sync", "last_update_garmin",
      "last_update_trainerroad", "refresh_token", "userid">>

\* JSON text of one value: null, "string", number
ToJson(v) ==
    CASE v.tag = "none" -> [j |-> "null", text |-> "", num |-> 0]
      [] v.tag = "str" -> [j |-> "string", text |-> v.s, num |-> 0]
      [] OTHER -> [j |-> "number", text |-> "", num |-> v.n]

FromJson(t) ==
    CASE t.j = "null" -> None
      [] t.j = "string" -> Str(t.text)
      [] OTHER -> Num(t.num)

RECURSIVE DumpFrom(_, _)
DumpFrom(d, i) ==
    IF i > Len(SortedKeys) THEN <<>>
    ELSE (IF SortedKeys[i] \in DOMAIN d
          THEN << <<SortedKeys[i], ToJson(d[SortedKeys[i]])>> >>
          ELSE <<>>) \o DumpFrom(d, i + 1)

\* json.dump(d, f, indent=2, sort_keys=True): the members in key order
json_dump(d) == DumpFrom(d, 1)

\* json.load of an object: the last member with a key gives its value
json_load(members) ==
    [k \in {m[1] : m \in Range(members)} |->
        LET last == CHOOSE i \in DOMAIN members :
                        /\ members[i][1] = k
                        /\ \A j \in DOMAIN members : members[j][1] = k => j <= i
        IN FromJson(members[last][2])]

\* What is at the path of the config file:
\*   exists = FALSE  no file;
\*   json = "object"   a JSON object with these members;
\*   json = "array"    valid JSON that is not an object;
\*   json = "invalid"  not JSON;
\*   json = "unreadable"  open() fails with PermissionError.
NoFile == [exists |-> FALSE, json |-> "invalid", members |-> <<>>]
InvalidFile == [exists |-> TRUE, json |-> "invalid", members |-> <<>>]
ArrayFile == [exists |-> TRUE, json |-> "array", members |-> <<>>]
UnreadableFile == [exists |-> TRUE, json |-> "unreadable", members |-> <<>>]
ObjectFile(d) == [exists |-> TRUE, json |-> "object", members |-> json_dump(d)]

\* WithingsConfig.save
save(c) == ObjectFile(c)

\* WithingsConfig.load: [config, raised]. A file that is not JSON (ValueError)
\* or is missing (FileNotFoundError) gives {}; a JSON value that is not an
\* object fails the assert of the config setter and the error leaves load,
\* as does the PermissionError of a file that cannot be opened.
load(f) ==
    IF ~f.exists \/ f.json = "invalid"
    THEN [config |-> EmptyDict, raised |-> FALSE]
    ELSE IF f.json \in {"array", "unreadable"}
    THEN [config |-> EmptyDict, raised |-> TRUE]
    ELSE [config |-> json_load(f.members), raised |-> FALSE]

\* __init__ with the merge the other way round: the template's values win
WithingsConfig_init_TemplateWins(f) ==
    IF ~f.exists
    THEN [config |-> config_template, file |-> save(config_template),
          saves |-> 1, raised |-> FALSE]
    ELSE LET l == load(f) IN
         IF l.raised
         THEN [config |-> EmptyDict, file |-> f, saves |-> 0, raised |-> TRUE]
         ELSE IF DOMAIN l.config # DOMAIN config_template
         THEN LET merged_config == DictUpdate(l.config, config_template)
              IN [config |-> merged_config, file |-> save(merged_config),
                  saves |-> 1, raised |-> FALSE]
         ELSE [config |-> l.config, file |-> f, saves |-> 0, raised |-> FALSE]

\* WithingsConfig.__init__ on the file f: the document in memory, the file
\* afterwards, the number of save() calls, and whether an error left it.
WithingsConfig_init(f) ==
    IF ~f.exists
    THEN [config |-> config_template, file |-> save(config_template),
          saves |-> 1, raised |-> FALSE]
    ELSE LET l == load(f) IN
         IF l.raised
         THEN [config |-> EmptyDict, file |-> f, saves |-> 0, raised |-> TRUE]
         ELSE IF DOMAIN l.config # DOMAIN config_template
         THEN LET merged_config == DictUpdate(config_template, l.config)
              IN [config |-> merged_config, file |-> save(merged_config),
                  saves |-> 1, raised |-> FALSE]
         ELSE [config |-> l.config, file |-> f, saves |-> 0, raised |-> FALSE]

\* reset without its save()
reset_NoSave == [config |-> config_template, file |-> file]

\* WithingsConfig.reset
reset == [config |-> config_template, file |-> save(config_template)]

-----------------------------------------------------------------------------
(* Measurements.  A measure is [type, value, unit]; a measure group is     *)
(* [date, measures].  A decoded float is held as its hundredths.           *)

TYPE_WEIGHT == 1
TYPE_HEIGHT == 4
TYPE_FAT_RATIO == 6
TYPE_DIASTOLIC_BLOOD_PRESSURE == 9
TYPE_SYSTOLIC_BLOOD_PRESSURE == 10
TYPE_HEART_PULSE == 11
TYPE_TEMPERATURE == 12
TYPE_MUSCLE_MASS == 76
TYPE_HYDRATION == 77
TYPE_BONE_MASS == 88
TYPE_PULSE_WAVE_VELOCITY == 91

RECURSIVE Pow10(_)
Pow10(e) == IF e <= 0 THEN 1 ELSE 10 * Pow10(e - 1)

\* round(n / d) to an integer, halves to the even neighbour (n >= 0, d > 0)
RoundDiv(n, d) ==
    LET q == n \div d
        r == n % d
    IN IF 2 * r > d \/ (2 * r = d /\ q % 2 = 1) THEN q + 1 ELSE q

\* round(measure.get_value(), 2) with get_value = value * pow(10, unit),
\* in hundredths
Round2(m) ==
    IF m.unit >= -2
    THEN m.value * Pow10(m.unit + 2)
    ELSE RoundDiv(m.value, Pow10(-(m.unit + 2)))

\* the typed accessors of WithingsMeasureGroup: the first measure of the
\* type, decoded and rounded, or None
GetTyped(group, type) ==
    LET hits == {i \in DOMAIN group.measures : group.measures[i].type = type}
    IN IF hits = {} THEN None
       ELSE LET first == CHOOSE i \in hits : \A j \in hits : i <= j
            IN Flt(Round2(group.measures[first]))

get_weight(group) == GetTyped(group, TYPE_WEIGHT)
get_group_height(group) == GetTyped(group, TYPE_HEIGHT)
get_fat_ratio(group) == GetTyped(group, TYPE_FAT_RATIO)
get_muscle_mass(group) == GetTyped(group, TYPE_MUSCLE_MASS)
get_hydration(group) == GetTyped(group, TYPE_HYDRATION)
get_bone_mass(group) == GetTyped(group, TYPE_BONE_MASS)
get_pulse_wave_velocity(group) == GetTyped(group, TYPE_PULSE_WAVE_VELOCITY)
get_heart_pulse(group) == GetTyped(group, TYPE_HEART_PULSE)
get_diastolic_blood_pressure(group) == GetTyped(group, TYPE_DIASTOLIC_BLOOD_PRESSURE)
get_systolic_blood_pressure(group) == GetTyped(group, TYPE_SYSTOLIC_BLOOD_PRESSURE)

\* WithingsAccount.get_height over the height groups the source returned
\* (status 0): st = <<self.height, self.height_timestamp>>
RECURSIVE HeightScan(_, _, _)
HeightScan(records, i, st) ==
    IF i > Len(records) THEN st[1]
    ELSE LET height_group == records[i] IN
         IF ~IsNone(st[1])
         THEN IF ~IsNone(st[2]) /\ height_group.date > st[2].n
              THEN HeightScan(records, i + 1, <<get_group_height(height_group), st[2]>>)
              ELSE HeightScan(records, i + 1, st)
         ELSE HeightScan(records, i + 1,
                         <<get_group_height(height_group), Num(height_group.date)>>)

get_height(records) == HeightScan(records, 1, <<None, None>>)

-----------------------------------------------------------------------------
(* sync.prepare_sync_data.  sync_dict is a dict in insertion order: a      *)
(* sequence of [dt, data]; data is the group_data dict, EmptyDict for the  *)
(* placeholder of line 233.                                                *)

HasKey(sync_dict, dt) == \E i \in DOMAIN sync_dict : sync_dict[i].dt = dt

\* sync_dict[dt] = data: in place when the key is there, at the end otherwise
OdSet(sync_dict, dt, data) ==
    IF HasKey(sync_dict, dt)
    THEN [i \in DOMAIN sync_dict |->
            IF sync_dict[i].dt = dt THEN [dt |-> dt, data |-> data] ELSE sync_dict[i]]
    ELSE Append(sync_dict, [dt |-> dt, data |-> data])

\* del sync_dict[dt]
OdDel(sync_dict, dt) == SelectSeq(sync_dict, LAMBDA e : e.dt # dt)

\* the quotient of line 240 cut to one decimal instead of rounded
Bmi_Truncated(hgt, weight) ==
    IF Truthy(hgt) /\ Truthy(weight)
    THEN [tag |-> "float1", s |-> "", n |-> (weight.n * 1000) \div (hgt.n * hgt.n)]
    ELSE None

\* bmi = round(weight / pow(height, 2), 1), in tenths
Bmi(hgt, weight) ==
    IF Truthy(hgt) /\ Truthy(weight)
    THEN [tag |-> "float1", s |-> "", n |-> RoundDiv(weight.n * 1000, hgt.n * hgt.n)]
    ELSE None

\* percent_hydration = round(hydration * 100.0 / weight, 2), in hundredths
PercentHydration(hydration, weight) ==
    IF Truthy(hydration) /\ Truthy(weight)
    THEN Flt(RoundDiv(hydration.n * 10000, weight.n))
    ELSE None

\* the group_data dict one group gives (lines 226-296)
GroupData(hgt, group) ==
    LET base == [k \in {"date_time", "type", "raw_data"} |->
                    CASE k = "date_time" -> Num(group.date)
                      [] k = "type" -> Str("None")
                      [] OTHER -> [tag |-> "list", items |-> group.measures]]
        weight == get_weight(group)
        hydration == get_hydration(group)
        w == [k \in {"height", "weight", "fat_ratio", "muscle_mass", "hydration",
                     "percent_hydration", "bone_mass", "pulse_wave_velocity",
                     "heart_pulse", "bmi", "type"} |->
                CASE k = "height" -> hgt
                  [] k = "weight" -> weight
                  [] k = "fat_ratio" -> get_fat_ratio(group)
                  [] k = "muscle_mass" -> get_muscle_mass(group)
                  [] k = "hydration" -> hydration
                  [] k = "percent_hydration" -> PercentHydration(hydration, weight)
                  [] k = "bone_mass" -> get_bone_mass(group)
                  [] k = "pulse_wave_velocity" -> get_pulse_wave_velocity(group)
                  [] k = "heart_pulse" -> get_heart_pulse(group)
                  [] k = "bmi" -> Bmi(hgt, weight)
                  [] OTHER -> Str("weight")]
        bp == [k \in {"diastolic_blood_pressure", "systolic_blood_pressure",
                      "heart_pulse", "type"} |->
                CASE k = "diastolic_blood_pressure" -> get_diastolic_blood_pressure(group)
                  [] k = "systolic_blood_pressure" -> get_systolic_blood_pressure(group)
                  [] k = "heart_pulse" -> get_heart_pulse(group)
                  [] OTHER -> Str("blood_pressure")]
        d1 == IF Truthy(weight) THEN DictUpdate(base, w) ELSE base
    IN IF Truthy(get_diastolic_blood_pressure(group)) THEN DictUpdate(d1, bp) ELSE d1

\* the loop of lines 221-307 without the test of line 298: every group's
\* group_data is stored
RECURSIVE GroupLoop_KeepAll(_, _, _, _)
GroupLoop_KeepAll(hgt, grps, i, sync_dict) ==
    IF i > Len(grps) THEN sync_dict
    ELSE GroupLoop_KeepAll(hgt, grps, i + 1,
                           OdSet(sync_dict, grps[i].date, GroupData(hgt, grps[i])))

\* the loop of lines 221-307
RECURSIVE GroupLoop(_, _, _, _)
GroupLoop(hgt, grps, i, sync_dict) ==
    IF i > Len(grps) THEN sync_dict
    ELSE LET dt == grps[i].date
             placed == IF HasKey(sync_dict, dt) THEN sync_dict
                       ELSE OdSet(sync_dict, dt, EmptyDict)
             group_data == GroupData(hgt, grps[i])
         IN IF "weight" \notin DOMAIN group_data
               /\ "diastolic_blood_pressure" \notin DOMAIN group_data
            THEN GroupLoop(hgt, grps, i + 1, OdDel(placed, dt))
            ELSE GroupLoop(hgt, grps, i + 1, OdSet(placed, dt, group_data))

\* the scan of lines 313-322 without the comparison of line 319: the last
\* record scanned is reported
RECURSIVE LastScan_LastRecord(_, _, _)
LastScan_LastRecord(sync_data, i, st) ==
    IF i > Len(sync_data) THEN st
    ELSE LastScan_LastRecord(sync_data, i + 1,
                             <<sync_data[i]["type"], sync_data[i]["date_time"]>>)

\* the scan of lines 313-322: st = <<last_measurement_type, last_date_time>>
RECURSIVE LastScan(_, _, _)
LastScan(sync_data, i, st) ==
    IF i > Len(sync_data) THEN st
    ELSE IF IsNone(st[2]) \/ sync_data[i]["date_time"].n > st[2].n
         THEN LastScan(sync_data, i + 1,
                       <<sync_data[i]["type"], sync_data[i]["date_time"]>>)
         ELSE LastScan(sync_data, i + 1, st)

\* prepare_sync_data: [last_measurement_type, last_date_time, sync_data]
prepare_sync_data(hgt, grps) ==
    LET sync_dict == GroupLoop(hgt, grps, 1, <<>>)
        sync_data == [i \in DOMAIN sync_dict |-> sync_dict[i].data]
        last == LastScan(sync_data, 1, <<None, None>>)
    IN [last_measurement_type |-> last[1], last_date_time |-> last[2],
        sync_data |-> sync_data]

\* generate_fitdata: per classification the records written to the encoder,
\* in order, or None when there are none (no encoder is created)
OfType(sync_data, type) == SelectSeq(sync_data, LAMBDA r : r["type"] = Str(type))

\* lines 152-162 without write_device_info
RECURSIVE WeightEntries_NoDeviceInfo(_, _)
WeightEntries_NoDeviceInfo(records, i) ==
    IF i > Len(records) THEN <<>>
    ELSE <<[m |-> "weight_scale", timestamp |-> records[i]["date_time"],
            weight |-> records[i]["weight"],
            percent_fat |-> records[i]["fat_ratio"],
            percent_hydration |-> records[i]["percent_hydration"],
            bone_mass |-> records[i]["bone_mass"],
            muscle_mass |-> records[i]["muscle_mass"],
            bmi |-> records[i]["bmi"]]>>
         \o WeightEntries_NoDeviceInfo(records, i + 1)

\* lines 152-162: what the loop writes to the weight encoder
RECURSIVE WeightEntries(_, _)
WeightEntries(records, i) ==
    IF i > Len(records) THEN <<>>
    ELSE <<[m |-> "device_info", timestamp |-> records[i]["date_time"]],
           [m |-> "weight_scale", timestamp |-> records[i]["date_time"],
            weight |-> records[i]["weight"],
            percent_fat |-> records[i]["fat_ratio"],
            percent_hydration |-> records[i]["percent_hydration"],
            bone_mass |-> records[i]["bone_mass"],
            muscle_mass |-> records[i]["muscle_mass"],
            bmi |-> records[i]["bmi"]]>>
         \o WeightEntries(records, i + 1)

\* lines 172-180: what the loop writes to the blood pressure encoder
RECURSIVE PressureEntries(_, _)
PressureEntries(records, i) ==
    IF i > Len(records) THEN <<>>
    ELSE <<[m |-> "device_info", timestamp |-> records[i]["date_time"]],
           [m |-> "blood_pressure", timestamp |-> records[i]["date_time"],
            diastolic_blood_pressure |-> records[i]["diastolic_blood_pressure"],
            systolic_blood_pressure |-> records[i]["systolic_blood_pressure"],
            heart_rate |-> records[i]["heart_pulse"]]>>
         \o PressureEntries(records, i + 1)

\* an encoder: made, given file_info and file_creator, the entries of the
\* loop, and finished, when the partition is not empty (lines 147-164,
\* 167-182)
FitOf(records, entries) ==
    IF Len(records) > 0
    THEN [tag |-> "fit", records |-> records,
          messages |-> <<[m |-> "file_info"], [m |-> "file_creator"]>>
                       \o entries \o <<[m |-> "finish"]>>]
    ELSE None

generate_fitdata(sync_data) ==
    LET weight_measurements == OfType(sync_data, "weight")
        blood_pressure_measurements == OfType(sync_data, "blood_pressure")
    IN <<FitOf(weight_measurements, WeightEntries(weight_measurements, 1)),
         FitOf(blood_pressure_measurements,
               PressureEntries(blood_pressure_measurements, 1))>>

-----------------------------------------------------------------------------
(* The environment: the operator, the token endpoint, the measurement      *)
(* source, the Garmin service.                                             *)

EndOfDay == 86399
DaySeconds == EndOfDay + 1
MeasureOffset == 3600   \* time of day of a measurement, in seconds

\* int(d.timestamp()) of the datetime at 00:00 of day d
Midnight(d) == d * DaySeconds

Days == 1..MaxDay

\* what the operator types at input("Token : ")
Codes == {"", "code1"}

\* responses of the token endpoint: resp.get("status"), resp.get("body")
Body(d) == [tag |-> "dict", d |-> d]

TokenBody ==
    Body([k \in {"access_token", "refresh_token", "userid"} |->
            CASE k = "access_token" -> Str("at1")
              [] k = "refresh_token" -> Str("rt1")
              [] OTHER -> Num(7)])

TokenResponses ==
    {[status |-> 0, body |-> TokenBody],
     [status |-> 401, body |-> Body(EmptyDict)],
     [status |-> 503, body |-> None]}

Measure(type, value, unit) == [type |-> type, value |-> value, unit |-> unit]

\* the kinds of measure group the source holds in this model
WeightMeasures ==
    <<Measure(TYPE_WEIGHT, 700, -1), Measure(TYPE_HYDRATION, 3500, -2)>>
PressureMeasures ==
    <<Measure(TYPE_DIASTOLIC_BLOOD_PRESSURE, 80, 0),
      Measure(TYPE_SYSTOLIC_BLOOD_PRESSURE, 120, 0),
      Measure(TYPE_HEART_PULSE, 60, 0)>>
TemperatureMeasures == <<Measure(TYPE_TEMPERATURE, 365, -1)>>

GroupKinds == {WeightMeasures, PressureMeasures, TemperatureMeasures}

SourceGroups ==
    {[date |-> Midnight(d) + MeasureOffset, measures |-> m] : d \in Days, m \in GroupKinds}

\* the height history of the account, as the source returns it
HeightHistories ==
    {<<>>,
     <<[date |-> Midnight(1), measures |-> <<Measure(TYPE_HEIGHT, 175, -2)>>]>>}

\* the arguments of a run
ArgSets ==
    [from_date : {None} \cup {Num(Midnight(1))},
     to_date : {Num(Midnight(d)) : d \in Days},
     no_upload : BOOLEAN,
     garmin_username : {None, Str("gu")},
     trainerroad_username : {None, Str("tu")},
     output : {None, Str("out")},
     reset_config : {FALSE}]
    \cup
    [from_date : {None}, to_date : {Num(Midnight(1))}, no_upload : {FALSE},
     garmin_username : {None}, trainerroad_username : {None}, output : {None},
     reset_config : {TRUE}]

\* documents a config file holds when the tool starts
StoredTokens(code, access, refresh, userid, garmin) ==
    [k \in TemplateKeys |->
        CASE k = "authentification_code" -> Str(code)
          [] k = "access_token" -> Str(access)
          [] k = "refresh_token" -> Str(refresh)
          [] k = "userid" -> Str(userid)
          [] k = "last_update_garmin" -> garmin
          [] OTHER -> config_template[k]]

Restrict(d, keys) == [k \in keys |-> d[k]]

InitDocs ==
    {config_template,
     StoredTokens("code0", "", "", "", None),
     StoredTokens("code0", "at0", "rt0", "7", Num(Midnight(1) + EndOfDay)),
     Restrict(StoredTokens("code0", "at0", "rt0", "7", None),
              TemplateKeys \ {"last_update_garmin", "last_update_trainerroad"})}

InitFiles == {NoFile, InvalidFile, ArrayFile} \cup {ObjectFile(d) : d \in InitDocs}

\* the groups of the source in a fixed order, and the sources of this model:
\* at most MaxGroups of them, in that order
GroupOrder(g) ==
    (g.date \div DaySeconds) * 100 + g.measures[1].type

IsSource(s) ==
    \A i, j \in DOMAIN s : i < j => GroupOrder(s[i]) < GroupOrder(s[j])

RECURSIVE SeqsUpTo(_, _)
SeqsUpTo(S, n) ==
    IF n = 0 THEN {<<>>}
    ELSE LET shorter == SeqsUpTo(S, n - 1)
         IN shorter \cup {Append(s, g) : s \in {x \in shorter : Len(x) = n - 1},
                                         g \in S}

Sources == {s \in SeqsUpTo(SourceGroups, MaxGroups) : IsSource(s)}

-----------------------------------------------------------------------------
(* One process: main() of sync.py *)

Terminal == {"returned_ok", "returned_fail", "exited_0", "raised"}

Init ==
    /\ file \in InitFiles
    /\ file0 = file
    /\ config = EmptyDict
    /\ pc = "start"
    /\ args \in ArgSets
    /\ today = 1
    /\ start_date = None
    /\ end_date = None
    /\ source \in Sources
    /\ height = None
    /\ groups = None
    /\ fit = <<None, None>>
    /\ log = <<>>
    /\ runs = 1

\* sync.py:386, config = WithingsConfig()
Main_Config ==
    /\ pc = "start"
    /\ LET r == WithingsConfig_init(file) IN
        /\ config' = r.config
        /\ file' = r.file
        /\ log' = IF r.saves = 1 THEN Append(log, "save") ELSE log
        /\ pc' = IF r.raised THEN "raised" ELSE "configured"
    /\ UNCHANGED <<args, today, start_date, end_date, source, height, groups,
                   fit, file0, runs>>

\* sync.py:388-394, --reset-config
Main_Reset ==
    /\ pc = "configured"
    /\ args.reset_config
    /\ config' = reset.config
    /\ file' = reset.file
    /\ log' = Append(log, "save")
    /\ pc' = "exited_0"
    /\ UNCHANGED <<args, today, start_date, end_date, source, height, groups,
                   fit, file0, runs>>

\* the tests of withings2.py:156 and 157-160 on a key of the document
Unset(c, k) == IsNone(DictGet(c, k, None)) \/ IsEmptyStr(DictGet(c, k, Str("")))

\* withings2.py:156-160 without the test of the stored code
OAuthEntry_AlwaysAsk(c) ==
    IF Unset(c, "access_token") THEN "auth_code" ELSE "refresh"

\* where WithingsOAuth2.__init__ goes first
OAuthEntry(c) ==
    IF Unset(c, "access_token")
    THEN IF Unset(c, "authentification_code") THEN "auth_code" ELSE "get_token"
    ELSE "refresh"

\* where WithingsAccount(config), run from sync.py:397, is
OAuthAt ==
    IF pc = "configured" /\ ~args.reset_config THEN OAuthEntry(config) ELSE pc

\* withings2.py:161, the operator gives a code
get_authentication_code ==
    /\ OAuthAt = "auth_code"
    /\ \E code \in Codes :
        config' = DictSet(config, "authentification_code", Str(code))
    /\ log' = Append(log, "authorize")
    /\ pc' = "get_token"
    /\ UNCHANGED <<file, args, today, start_date, end_date, source, height,
                   groups, fit, file0, runs>>

\* withings2.py:211-213 without the refresh_token
update_access_token_NoRefreshToken(c, resp) ==
    IF IsNone(resp.body)
    THEN [config |-> c, raised |-> TRUE, error |-> resp.status # 0]
    ELSE [config |->
            DictSet(DictSet(c,
                "access_token", DictGet(resp.body.d, "access_token", None)),
                "userid", PyStr(DictGet(resp.body.d, "userid", None))),
          raised |-> FALSE,
          error |-> resp.status # 0]

\* WithingsOAuth2._update_access_token on the response resp:
\* [config, raised, error]; body.get on a missing body raises
update_access_token(c, resp) ==
    IF IsNone(resp.body)
    THEN [config |-> c, raised |-> TRUE, error |-> resp.status # 0]
    ELSE [config |->
            DictSet(DictSet(DictSet(c,
                "access_token", DictGet(resp.body.d, "access_token", None)),
                "refresh_token", DictGet(resp.body.d, "refresh_token", None)),
                "userid", PyStr(DictGet(resp.body.d, "userid", None))),
          raised |-> FALSE,
          error |-> resp.status # 0]

\* one token exchange: the request, logger.error on a non-zero status,
\* then the fields of the body
TokenExchange(grant, next) ==
    \E resp \in TokenResponses :
        LET r == update_access_token(config, resp) IN
        /\ config' = r.config
        /\ log' = log \o <<grant>> \o (IF r.error THEN <<"error:token">> ELSE <<>>)
        /\ pc' = IF r.raised THEN "raised" ELSE next

\* withings2.py:163, get_access_token
get_access_token ==
    /\ OAuthAt = "get_token"
    /\ TokenExchange("token:authorization_code", "refresh")
    /\ UNCHANGED <<file, args, today, start_date, end_date, source, height,
                   groups, fit, file0, runs>>

\* withings2.py:165, refresh_access_token
refresh_access_token ==
    /\ OAuthAt = "refresh"
    /\ TokenExchange("token:refresh_token", "account_save")
    /\ UNCHANGED <<file, args, today, start_date, end_date, source, height,
                   groups, fit, file0, runs>>

\* withings2.py:252, the save that ends WithingsAccount.__init__
Account_Save ==
    /\ pc = "account_save"
    /\ file' = save(config)
    /\ log' = Append(log, "save")
    /\ pc' = "fetch"
    /\ UNCHANGED <<config, args, today, start_date, end_date, source, height,
                   groups, fit, file0, runs>>

\* sync.py:400-406 with the window starting at the watermark itself
StartDate_AtWatermark(c, a, day) ==
    IF IsNone(a.from_date)
    THEN IF ~IsNone(c["last_update_garmin"])
         THEN c["last_update_garmin"]
         ELSE Num(Midnight(day))
    ELSE a.from_date

\* sync.py:400-406
StartDate(c, a, day) ==
    IF IsNone(a.from_date)
    THEN IF ~IsNone(c["last_update_garmin"])
         THEN Num(c["last_update_garmin"].n + 1)
         ELSE Num(Midnight(day))
    ELSE a.from_date

\* sync.py:408
EndDate(a) == Num(a.to_date.n + EndOfDay)

\* get_measurements: None on a non-zero status, else the groups of the
\* window in the order of the source
List(items) == [tag |-> "list", items |-> items]

get_measurements(status, start, end) ==
    IF status = 0
    THEN List(SelectSeq(source, LAMBDA g : start.n <= g.date /\ g.date <= end.n))
    ELSE None

\* the test of sync.py:417 without its len(groups) == 0
AfterFetch_NoneOnly(g) ==
    IF IsNone(g) THEN "returned_fail" ELSE "prepare"

\* sync.py:417-419: no groups, no run
AfterFetch(g) ==
    IF IsNone(g) \/ Len(g.items) = 0 THEN "returned_fail" ELSE "prepare"

\* sync.py:399-419: the window, the height, the groups of the window
Main_Fetch ==
    /\ pc = "fetch"
    /\ start_date' = StartDate(config, args, today)
    /\ end_date' = EndDate(args)
    /\ \E hstatus \in {0, 401}, history \in HeightHistories :
        height' = IF hstatus = 0 THEN get_height(history) ELSE None
    /\ \E status \in {0, 401} :
        groups' = get_measurements(status, start_date', end_date')
    /\ log' = log \o <<"getmeas:height", "getmeas">>
              \o (IF AfterFetch(groups') = "returned_fail"
                  THEN <<"error:no_measurements">> ELSE <<>>)
    /\ pc' = AfterFetch(groups')
    /\ UNCHANGED <<file, config, args, today, source, fit, file0, runs>>

\* the sync data of the run (sync.py:421)
SyncData == prepare_sync_data(height, groups.items).sync_data

\* write_to_file_when_needed: the files written.  A run of this model that
\* gives --output gives --to-fit and --to-json with it.
FilesWritten(a, f) ==
    IF IsNone(a.output) THEN <<>>
    ELSE (IF ~IsNone(f[1]) THEN <<"write:weight.fit">> ELSE <<>>)
         \o (IF ~IsNone(f[2]) THEN <<"write:blood_pressure.fit">> ELSE <<>>)
         \o <<"write:json">>

\* sync.py:421-426: plan, encode, write files
Main_Prepare ==
    /\ pc = "prepare"
    /\ fit' = generate_fitdata(SyncData)
    /\ log' = log
              \o (IF Len(SyncData) = 0 THEN <<"error:no_data">> ELSE <<>>)
              \o (IF ~IsNone(fit'[1]) THEN <<"encode:weight">> ELSE <<>>)
              \o (IF ~IsNone(fit'[2]) THEN <<"encode:blood_pressure">> ELSE <<>>)
              \o <<"json">>
              \o FilesWritten(args, fit')
    /\ pc' = IF args.no_upload THEN "save" ELSE "trainerroad"
    /\ UNCHANGED <<file, config, args, today, start_date, end_date, source,
                   height, groups, file0, runs>>

\* sync.py:430-444.  sync_trainerroad(last_weight, args) is called with one
\* argument: the call raises TypeError before the TrainerRoad client is
\* made, and lines 441-442 are never run.
last_weight_exists == Len(OfType(SyncData, "weight")) > 0

Main_TrainerRoad ==
    /\ pc = "trainerroad"
    /\ pc' = IF Truthy(args.trainerroad_username) /\ last_weight_exists
             THEN "raised" ELSE "garmin"
    /\ UNCHANGED <<file, config, args, today, start_date, end_date, source,
                   height, groups, fit, log, file0, runs>>

\* sync.py:454-459 with the watermark set whatever upload_file returns
GarminUpload_Always(st, encoder, what, ok) ==
    IF IsNone(encoder) THEN st
    ELSE [log |-> Append(st.log, IF ok THEN "upload:" \o what \o ":ok"
                                       ELSE "upload:" \o what \o ":failed"),
          config |-> DictSet(st.config, "last_update_garmin", end_date)]

\* garmin.upload_file of one encoder: the log and the document afterwards
GarminUpload(st, encoder, what, ok) ==
    IF IsNone(encoder) THEN st
    ELSE [log |-> Append(st.log, IF ok THEN "upload:" \o what \o ":ok"
                                       ELSE "upload:" \o what \o ":failed"),
          config |-> IF ok THEN DictSet(st.config, "last_update_garmin", end_date)
                     ELSE st.config]

\* sync.py:447-461
Main_Garmin ==
    /\ pc = "garmin"
    /\ IF Truthy(args.garmin_username) /\ (~IsNone(fit[1]) \/ ~IsNone(fit[2]))
       THEN \E login_ok, weight_ok, pressure_ok \in BOOLEAN :
            IF ~login_ok
            THEN /\ log' = Append(log, "garmin:login")
                 /\ pc' = "raised"
                 /\ UNCHANGED config
            ELSE LET s0 == [log |-> Append(log, "garmin:login"), config |-> config]
                     s1 == GarminUpload(s0, fit[1], "weight", weight_ok)
                     s2 == GarminUpload(s1, fit[2], "blood_pressure", pressure_ok)
                 IN /\ log' = s2.log
                    /\ config' = s2.config
                    /\ pc' = "save"
       ELSE /\ pc' = "save"
            /\ UNCHANGED <<log, config>>
    /\ UNCHANGED <<file, args, today, start_date, end_date, source, height,
                   groups, fit, file0, runs>>

\* sync.py:467-469 without config.save()
Main_Save_NoWrite ==
    /\ pc = "save"
    /\ pc' = "returned_ok"
    /\ UNCHANGED <<file, config, log, args, today, start_date, end_date, source,
                   height, groups, fit, file0, runs>>

\* sync.py:467-469
Main_Save ==
    /\ pc = "save"
    /\ file' = save(config)
    /\ log' = Append(log, "save")
    /\ pc' = "returned_ok"
    /\ UNCHANGED <<config, args, today, start_date, end_date, source, height,
                   groups, fit, file0, runs>>

\* the tool is started again, the same day or a later one; the class
\* attribute _config of the new process is {}
Restart ==
    /\ pc \in Terminal
    /\ runs < MaxRuns
    /\ runs' = runs + 1
    /\ config' = EmptyDict
    /\ pc' = "start"
    /\ args' \in ArgSets
    /\ today' \in {d \in Days : d >= today}
    /\ start_date' = None
    /\ end_date' = None
    /\ height' = None
    /\ groups' = None
    /\ fit' = <<None, None>>
    /\ log' = <<>>
    /\ file0' = file
    /\ UNCHANGED <<file, source>>

\* one run of the tool
Next ==
    \/ Main_Config
    \/ Main_Reset
    \/ get_authentication_code
    \/ get_access_token
    \/ refresh_access_token
    \/ Account_Save
    \/ Main_Fetch
    \/ Main_Prepare
    \/ Main_TrainerRoad
    \/ Main_Garmin
    \/ Main_Save

Spec == Init /\ [][Next]_vars

\* a run with --reset-config and the runs that follow it
InitReset ==
    /\ Init
    /\ args.reset_config
    /\ Len(source) <= 1

NextReset == Next \/ Restart

SpecReset == InitReset /\ [][NextReset]_vars

-----------------------------------------------------------------------------
(* The Credential Document alone: WithingsConfig() on any stored document, *)
(* and WithingsConfig() again on what the first left.                      *)

CustomKeys ==
    {"access_token", "authentification_code", "refresh_token", "userid",
     "last_update_garmin", "last_update_trainerroad", "client_id"}

\* a stored value of key k: 1 the usual one, 2 another
StoredValue(k, c) ==
    CASE k = "last_sync" -> Num(Midnight(1))
      [] c = 1 -> config_template[k]
      [] k \in {"last_update_garmin", "last_update_trainerroad"} -> Num(Midnight(1) + EndOfDay)
      [] OTHER -> Str("stored_" \o k)

\* the stored documents: each key absent (0) or with one of its values
DocChoices ==
    {c \in [Range(SortedKeys) -> 0..2] :
        \A k \in Range(SortedKeys) : c[k] = 2 => k \in CustomKeys}

DocOf(c) == [k \in {x \in Range(SortedKeys) : c[x] # 0} |-> StoredValue(k, c[k])]

ConfigFiles ==
    {NoFile, InvalidFile, ArrayFile, UnreadableFile}
    \cup {ObjectFile(DocOf(c)) : c \in DocChoices}

DefaultArgs ==
    [from_date |-> None, to_date |-> Num(Midnight(1)), no_upload |-> FALSE,
     garmin_username |-> None, trainerroad_username |-> None, output |-> None,
     reset_config |-> FALSE]

InitConfig ==
    /\ file \in ConfigFiles
    /\ file0 = file
    /\ config = EmptyDict
    /\ pc = "start"
    /\ args = DefaultArgs
    /\ today = 1
    /\ start_date = None
    /\ end_date = None
    /\ source = <<>>
    /\ height = None
    /\ groups = None
    /\ fit = <<None, None>>
    /\ log = <<>>
    /\ runs = 1

\* withings2.py:76-94, WithingsConfig() once more in the same process
WithingsConfig_Again ==
    /\ pc = "configured"
    /\ LET r == WithingsConfig_init(file) IN
        /\ config' = r.config
        /\ file' = r.file
        /\ log' = IF r.saves = 1 THEN Append(log, "save") ELSE log
        /\ pc' = IF r.raised THEN "raised" ELSE "constructed_again"
    /\ UNCHANGED <<args, today, start_date, end_date, source, height, groups,
                   fit, file0, runs>>

NextConfig == Main_Config \/ WithingsConfig_Again

SpecConfig == InitConfig /\ [][NextConfig]_vars

-----------------------------------------------------------------------------
(* Properties *)

Logged(ev) == ev \in Range(log)

Count(ev) == Cardinality({i \in DOMAIN log : log[i] = ev})

\* the document the file held when the run started, and the one it holds now
Stored == load(file0).config
OnDisk == load(file).config

WatermarkKeys == {"last_update_garmin", "last_update_trainerroad"}

\* a watermark of a document: None when the document has none
Watermark(d, k) == DictGet(d, k, None)

WatermarksKept ==
    \A k \in WatermarkKeys :
        /\ Watermark(config, k) = Watermark(Stored, k)
        /\ Watermark(OnDisk, k) = Watermark(Stored, k)

ExportEvents ==
    {"encode:weight", "encode:blood_pressure", "json", "write:weight.fit",
     "write:blood_pressure.fit", "write:json", "garmin:login",
     "upload:weight:ok", "upload:weight:failed",
     "upload:blood_pressure:ok", "upload:blood_pressure:failed"}

NoGroups == IsNone(groups) \/ Len(groups.items) = 0

\* C1: when the measurement query gives None or an empty list, main returns
\* -1 (it goes no further), both watermarks are as they were when the run
\* started, in memory and on disk, and no encoder, file writer or uploader
\* has been called.
C1_EmptyResult ==
    /\ pc \in {"prepare", "trainerroad", "garmin", "save", "returned_ok"} => ~NoGroups
    /\ pc = "returned_fail" =>
        /\ NoGroups
        /\ WatermarksKept
        /\ \A ev \in ExportEvents : ~Logged(ev)

C1_Witness ==
    /\ pc = "returned_fail"
    /\ ~IsNone(groups)
    /\ Len(groups.items) = 0
    /\ ~IsNone(Watermark(Stored, "last_update_garmin"))
    /\ ~IsNone(args.output)
    /\ Truthy(args.garmin_username)

\* a TrainerRoad delivery is due in this run: uploading is enabled, a
\* username is set and there is a weight record
TrainerRoadDue ==
    /\ pc \in {"garmin", "save", "returned_ok", "raised"}
    /\ ~IsNone(groups)
    /\ ~args.no_upload
    /\ Truthy(args.trainerroad_username)
    /\ last_weight_exists

GarminDelivered == Logged("upload:weight:ok") \/ Logged("upload:blood_pressure:ok")

\* C2: each delivery sets the watermark of its own platform to end_date:
\* after a Garmin upload that succeeded last_update_garmin = end_date, and
\* once the run is past the TrainerRoad step with a TrainerRoad sync due (the
\* service refuses nothing) last_update_trainerroad = end_date.
C2_PlatformWatermark ==
    /\ (pc \in {"save", "returned_ok"} /\ GarminDelivered)
            => config["last_update_garmin"] = end_date
    /\ TrainerRoadDue => config["last_update_trainerroad"] = end_date

NoDelivery ==
    \/ args.no_upload
    \/ (~Truthy(args.garmin_username) /\ ~Truthy(args.trainerroad_username))
    \/ (IsNone(fit[1]) /\ IsNone(fit[2]))
    \/ ~GarminDelivered

\* C3 as stated: in every run without a successful delivery (uploading
\* disabled, no username, no batch, or every upload failed) both watermarks
\* are at the end of the run what they were at its start.
C3_AnyRunKeepsWatermarks ==
    (pc \in Terminal /\ NoDelivery) => WatermarksKept

\* C3, amended: in every run not started with --reset-config and without a
\* successful delivery, both watermarks are at the end of the run what they
\* were at its start, in memory and on disk.
C3_NoDeliveryNoAdvance ==
    (pc \in Terminal /\ ~args.reset_config /\ NoDelivery) => WatermarksKept

C3_Witness ==
    /\ pc = "returned_ok"
    /\ Logged("upload:weight:failed")
    /\ Logged("upload:blood_pressure:failed")
    /\ ~IsNone(Watermark(Stored, "last_update_garmin"))
    /\ end_date # Watermark(Stored, "last_update_garmin")

WindowComputed == pc \in {"prepare", "trainerroad", "garmin", "save",
                          "returned_ok", "returned_fail"}
                  \/ (pc = "raised" /\ Logged("getmeas"))

\* C4: the window of a run: without --from_date, start is the stored
\* watermark + 1 when there is one and midnight of today otherwise; with
\* --from_date, start is that date; end is midnight of to_date + 86399.
C4_SyncWindow ==
    WindowComputed =>
        LET stored == Watermark(Stored, "last_update_garmin") IN
        /\ (IsNone(args.from_date) /\ ~IsNone(stored)) => start_date = Num(stored.n + 1)
        /\ (IsNone(args.from_date) /\ IsNone(stored)) => start_date = Num(today * 86400)
        /\ ~IsNone(args.from_date) => start_date = args.from_date
        /\ end_date = Num(args.to_date.n + 86399)

C4_Witness ==
    /\ WindowComputed
    /\ IsNone(args.from_date)
    /\ ~IsNone(Watermark(Stored, "last_update_garmin"))
    /\ args.to_date = Num(2 * 86400)

\* a field of the stored document is empty or absent
EmptyOrAbsent(d, k) == k \notin DOMAIN d \/ d[k] = None \/ d[k] = Str("")

\* WithingsOAuth2.__init__ has ended, normally or by an error of an exchange
OAuthEnded ==
    \/ pc \in {"account_save", "fetch", "prepare", "trainerroad", "garmin",
               "save", "returned_ok", "returned_fail"}
    \/ pc = "raised" /\ (Logged("token:authorization_code") \/ Logged("token:refresh_token"))

\* C5: in a TokenSession construction the operator is asked for a code if
\* and only if access_token and authentification_code are both empty or
\* absent, and the code is exchanged if and only if access_token is empty or
\* absent.
C5_BootstrapBranches ==
    LET noToken == EmptyOrAbsent(Stored, "access_token")
        noCode == EmptyOrAbsent(Stored, "authentification_code")
    IN /\ Logged("authorize") => (noToken /\ noCode)
       /\ Logged("token:authorization_code") => noToken
       /\ OAuthEnded =>
            /\ (noToken /\ noCode) => Count("authorize") = 1
            /\ noToken => Count("token:authorization_code") = 1

C5_Witness ==
    /\ OAuthEnded
    /\ EmptyOrAbsent(Stored, "access_token")
    /\ ~EmptyOrAbsent(Stored, "authentification_code")
    /\ Logged("token:authorization_code")
    /\ ~Logged("authorize")

\* the token-endpoint calls of the run, in order
TokenCalls ==
    SelectSeq(log, LAMBDA ev : ev \in {"token:authorization_code", "token:refresh_token"})

\* C6: every TokenSession construction makes exactly one refresh exchange,
\* as its last token-endpoint call: one call when an access token is found,
\* two when it is not.
C6_OneRefresh ==
    OAuthEnded =>
        /\ Count("token:refresh_token") = 1
        /\ TokenCalls[Len(TokenCalls)] = "token:refresh_token"
        /\ Len(TokenCalls) = IF EmptyOrAbsent(Stored, "access_token") THEN 2 ELSE 1

\* C7: a token exchange answered with a non-zero status logs an error and
\* does not raise.
C7_ErrorStatusDoesNotRaise ==
    (Len(log) > 0 /\ log[Len(log)] = "error:token") => pc # "raised"

\* the TokenSession is being constructed, or WithingsAccount.__init__ is
\* about to save
Bootstrapping ==
    \/ pc = "configured" /\ ~args.reset_config
    \/ pc \in {"get_token", "refresh", "account_save"}
    \/ /\ pc = "raised"
       /\ Logged("token:authorization_code") \/ Logged("token:refresh_token")
       /\ ~Logged("getmeas")

\* C8: a token exchange writes access_token, refresh_token and userid of the
\* response body into the document in memory and does not save: during the
\* whole TokenSession construction the file is what WithingsConfig left, so
\* the code the operator entered is not in it.
C8_ExchangeDoesNotSave ==
    /\ Bootstrapping =>
        /\ file = (IF file0.exists /\ DOMAIN Stored = TemplateKeys
                   THEN file0
                   ELSE ObjectFile([k \in TemplateKeys |->
                            IF k \in DOMAIN Stored THEN Stored[k] ELSE config_template[k]]))
        /\ Count("save") <= 1
    /\ pc \in {"refresh", "account_save"} =>
        LET written == <<config["access_token"], config["refresh_token"], config["userid"]>>
        IN IF log[Len(log)] = "error:token"
           THEN written = <<None, None, Str("None")>>
           ELSE written = <<Str("at1"), Str("rt1"), Str("7")>>

C8_Witness ==
    /\ pc = "account_save"
    /\ Logged("authorize")
    /\ config["authentification_code"] = Str("code1")
    /\ config["refresh_token"] = Str("rt1")
    /\ OnDisk["authentification_code"] = Str("")
    /\ OnDisk["refresh_token"] = Str("")

\* the token events of the run with the authorization step, in order
OAuthCalls ==
    SelectSeq(log, LAMBDA ev : ev \in {"authorize", "token:authorization_code",
                                       "token:refresh_token"})

\* C9: after reset() the document in memory and the document on disk are the
\* template, load() of the file gives the template, and the next TokenSession
\* construction asks for a code and exchanges it before it refreshes.
C9_ResetForcesAuthorization ==
    /\ pc = "exited_0" =>
        /\ config = config_template
        /\ load(file) = [config |-> config_template, raised |-> FALSE]
        /\ file.members = json_dump(config_template)
    /\ (runs = 2 /\ ~args.reset_config
        /\ load(file0).config = config_template /\ ~load(file0).raised) =>
        /\ pc \in {"get_token"} => OAuthCalls = <<"authorize">>
        /\ pc \in {"refresh"} => OAuthCalls = <<"authorize", "token:authorization_code">>
        /\ (OAuthEnded /\ Logged("token:refresh_token")) =>
                OAuthCalls = <<"authorize", "token:authorization_code",
                               "token:refresh_token">>

C9_Witness ==
    /\ runs = 2
    /\ file0 = reset.file
    /\ pc = "account_save"
    /\ OAuthCalls = <<"authorize", "token:authorization_code", "token:refresh_token">>

\* C10: for a stored document whose keys are a strict subset of the
\* template's, WithingsConfig() leaves a document with exactly the
\* template's keys, the stored value of every stored key and the default of
\* every other, and saves it; WithingsConfig() again on the result changes
\* nothing in memory or on disk and does not save.
C10_MergeIdempotent ==
    (/\ pc \in {"configured", "constructed_again"}
     /\ file0.exists /\ file0.json = "object"
     /\ DOMAIN Stored \subseteq TemplateKeys
     /\ DOMAIN Stored # TemplateKeys)
    => /\ DOMAIN config = TemplateKeys
       /\ \A k \in TemplateKeys :
            config[k] = IF k \in DOMAIN Stored THEN Stored[k] ELSE config_template[k]
       /\ file.exists /\ file.json = "object"
       /\ file = ObjectFile(config)
       /\ json_load(file.members) = config
       /\ log = <<"save">>

C10_Witness ==
    /\ pc = "constructed_again"
    /\ DOMAIN Stored = {"access_token", "client_id", "last_update_garmin"}
    /\ Stored["access_token"] = Str("stored_access_token")
    /\ Stored["client_id"] = Str("stored_client_id")
    /\ ~IsNone(Stored["last_update_garmin"])
    /\ file0.exists

\* C11: after WithingsConfig() the keys of the document in memory and of the
\* document on disk are exactly the template's keys: a stored key that the
\* template does not have is not kept.
C11_TemplateShape ==
    pc \in {"configured", "constructed_again"} =>
        /\ DOMAIN config = TemplateKeys
        /\ DOMAIN OnDisk = TemplateKeys

\* the file the run found could not be loaded as a document
LoadFailed == ~file0.exists \/ file0.json \in {"invalid", "array", "unreadable"}

\* C12: whatever the failure to read or parse the file (missing, unreadable,
\* not JSON, JSON that is not an object), WithingsConfig() does not raise and
\* ends with the template in memory and on disk.
C12_LoadFailureGivesTemplate ==
    (LoadFailed /\ pc # "start") =>
        /\ pc # "raised"
        /\ config = config_template
        /\ file = ObjectFile(config_template)
        /\ OnDisk = config_template

-----------------------------------------------------------------------------
(* WithingsAccount.get_height alone, on any height history.  In this       *)
(* specification source is the list of height groups the query returns.    *)

MaxRecords == 3   \* height groups in a history

HeightValues == {170, 175, 180}

HeightGroups ==
    {[date |-> Midnight(d), measures |-> <<Measure(TYPE_HEIGHT, v, -2)>>] :
        d \in 1..MaxRecords, v \in HeightValues}

InitHeight ==
    /\ source \in SeqsUpTo(HeightGroups, MaxRecords)
    /\ file = ObjectFile(config_template)
    /\ file0 = file
    /\ config = config_template
    /\ pc = "height"
    /\ args = DefaultArgs
    /\ today = 1
    /\ start_date = None
    /\ end_date = None
    /\ height = None
    /\ groups = None
    /\ fit = <<None, None>>
    /\ log = <<>>
    /\ runs = 1

\* withings2.py:275-306: the query and the scan of what it returns
Account_get_height ==
    /\ pc = "height"
    /\ \E status \in {0, 401} :
        /\ height' = IF status = 0 THEN get_height(source) ELSE None
        /\ log' = Append(log, IF status = 0 THEN "getmeas:height:ok"
                                             ELSE "getmeas:height:failed")
    /\ pc' = "height_done"
    /\ UNCHANGED <<file, config, args, today, start_date, end_date, source,
                   groups, fit, file0, runs>>

NextHeight == Account_get_height

SpecHeight == InitHeight /\ [][NextHeight]_vars

\* C13: get_height returns the decoded height of a group with the greatest
\* timestamp, whatever the order of the groups, and None exactly when the
\* query fails or returns no group.
C13_LatestHeight ==
    pc = "height_done" =>
        IF Logged("getmeas:height:failed") \/ Len(source) = 0
        THEN height = None
        ELSE /\ height # None
             /\ \E i \in DOMAIN source :
                    /\ \A j \in DOMAIN source : source[j].date <= source[i].date
                    /\ height = get_group_height(source[i])

-----------------------------------------------------------------------------
(* prepare_sync_data and generate_fitdata alone, on any list of groups in  *)
(* any order of timestamps, repeated timestamps included.                  *)

MaxPlanned == 3   \* groups in the list given to prepare_sync_data

\* the kinds of group of this specification: weight with hydration, weight
\* with fat ratio, two blood pressures, weight and blood pressure in one
\* group, temperature only, a weight of 0, a weight that rounds to 0.0, a
\* diastolic pressure of 0 beside a weight, a weight in grams beside a
\* hydration of 0
PlannerKinds ==
    {WeightMeasures,
     <<Measure(TYPE_WEIGHT, 70456, -3), Measure(TYPE_HYDRATION, 0, 0)>>,
     <<Measure(TYPE_WEIGHT, 800, -1), Measure(TYPE_FAT_RATIO, 20, 0)>>,
     PressureMeasures,
     <<Measure(TYPE_DIASTOLIC_BLOOD_PRESSURE, 70, 0),
       Measure(TYPE_SYSTOLIC_BLOOD_PRESSURE, 110, 0)>>,
     <<Measure(TYPE_WEIGHT, 650, -1), Measure(TYPE_DIASTOLIC_BLOOD_PRESSURE, 85, 0),
       Measure(TYPE_SYSTOLIC_BLOOD_PRESSURE, 125, 0)>>,
     TemperatureMeasures,
     <<Measure(TYPE_WEIGHT, 0, 0)>>,
     <<Measure(TYPE_WEIGHT, 4, -3)>>,
     <<Measure(TYPE_WEIGHT, 720, -1), Measure(TYPE_DIASTOLIC_BLOOD_PRESSURE, 0, 0),
       Measure(TYPE_SYSTOLIC_BLOOD_PRESSURE, 120, 0)>>}

PlannerGroups ==
    {[date |-> Midnight(d) + MeasureOffset, measures |-> m] :
        d \in Days, m \in PlannerKinds}

InitPlanner ==
    /\ source \in SeqsUpTo(PlannerGroups, MaxPlanned)
    /\ groups = List(source)
    /\ height \in {None, Flt(0), Flt(175), Flt(180)}
    /\ file = ObjectFile(config_template)
    /\ file0 = file
    /\ config = config_template
    /\ pc = "prepare"
    /\ args = DefaultArgs
    /\ today = 1
    /\ start_date = None
    /\ end_date = None
    /\ fit = <<None, None>>
    /\ log = <<>>
    /\ runs = 1

NextPlanner == Main_Prepare

SpecPlanner == InitPlanner /\ [][NextPlanner]_vars

\* prepare_sync_data has returned to main (sync.py:421)
Prepared == pc \in {"trainerroad", "garmin", "save", "returned_ok"}

\* what prepare_sync_data returned
Planned == prepare_sync_data(height, groups.items)

\* the records an encoder was given
Batch(f) == IF IsNone(f) THEN <<>> ELSE f.records

\* the group has a measure of the type
Contains(group, type) == \E i \in DOMAIN group.measures : group.measures[i].type = type

\* no later group of the list has the timestamp of group i
LastAt(i) ==
    \A j \in DOMAIN groups.items :
        j > i => groups.items[j].date # groups.items[i].date

\* the records of the returned list with timestamp dt
RecordsAt(dt) == {k \in DOMAIN SyncData : SyncData[k]["date_time"] = Num(dt)}

\* C14: every record prepare_sync_data returns has type weight or
\* blood_pressure: no record of type None and no empty placeholder is in the
\* list, so the encoders are given every record of the list.
C14_OnlyClassifiedRecords ==
    Prepared =>
        /\ \A k \in DOMAIN SyncData :
            /\ SyncData[k] # EmptyDict
            /\ "type" \in DOMAIN SyncData[k]
            /\ SyncData[k]["type"] \in {Str("weight"), Str("blood_pressure")}
        /\ Len(Batch(fit[1])) + Len(Batch(fit[2])) = Len(SyncData)

C14_Witness ==
    /\ Prepared
    /\ Len(groups.items) = 3
    /\ groups.items[1].date = groups.items[3].date
    /\ Contains(groups.items[2], TYPE_TEMPERATURE)
    /\ Contains(groups.items[3], TYPE_WEIGHT)
    /\ Len(SyncData) = 1

\* the classified records
Classified(k) == SyncData[k]["type"] \in {Str("weight"), Str("blood_pressure")}

\* C15: every group that has a weight measure or a diastolic measure,
\* whatever the value decodes to, and that no later group of the list shares
\* its timestamp with, gives a classified record of the returned list.
C15_MeasuredGroupsKept ==
    Prepared =>
        \A i \in DOMAIN groups.items :
            (/\ Contains(groups.items[i], TYPE_WEIGHT)
                    \/ Contains(groups.items[i], TYPE_DIASTOLIC_BLOOD_PRESSURE)
             /\ LastAt(i))
            => \E k \in RecordsAt(groups.items[i].date) : Classified(k)

\* C16: every record is in one batch only, and a group with a weight measure
\* and a diastolic measure gives one record, of type blood_pressure, that is
\* in the blood-pressure batch and not in the weight batch.
C16_OneCategory ==
    Prepared =>
        /\ \A k \in DOMAIN SyncData :
            ~(SyncData[k] \in Range(Batch(fit[1])) /\ SyncData[k] \in Range(Batch(fit[2])))
        /\ \A i \in DOMAIN groups.items :
            (/\ Contains(groups.items[i], TYPE_WEIGHT)
             /\ Contains(groups.items[i], TYPE_DIASTOLIC_BLOOD_PRESSURE)
             /\ LastAt(i))
            => /\ Cardinality(RecordsAt(groups.items[i].date)) = 1
               /\ \A k \in RecordsAt(groups.items[i].date) :
                    /\ SyncData[k]["type"] = Str("blood_pressure")
                    /\ SyncData[k] \in Range(Batch(fit[2]))
                    /\ SyncData[k] \notin Range(Batch(fit[1]))

\* C17: of two groups with one timestamp that each have a weight or a
\* diastolic measure, the returned list has exactly one record, the record
\* the later group gives by itself.
C17_LaterGroupReplaces ==
    Prepared =>
        \A i, j \in DOMAIN groups.items :
            (/\ i < j
             /\ groups.items[i].date = groups.items[j].date
             /\ \A g \in {groups.items[i], groups.items[j]} :
                    Contains(g, TYPE_WEIGHT) \/ Contains(g, TYPE_DIASTOLIC_BLOOD_PRESSURE)
             /\ LastAt(j))
            => /\ Cardinality(RecordsAt(groups.items[j].date)) = 1
               /\ \A k \in RecordsAt(groups.items[j].date) :
                    SyncData[k] = GroupData(height, groups.items[j])

\* C18: for a list of records that is not empty, last_measurement_type and
\* last_date_time are the type and the timestamp of the record with the
\* greatest timestamp, whatever the order of the groups.
C18_LastIsLatest ==
    (Prepared /\ Len(SyncData) > 0) =>
        \E k \in DOMAIN SyncData :
            /\ \A m \in DOMAIN SyncData :
                    SyncData[m]["date_time"].n <= SyncData[k]["date_time"].n
            /\ Planned.last_measurement_type = SyncData[k]["type"]
            /\ Planned.last_date_time = SyncData[k]["date_time"]

C18_Witness ==
    /\ Prepared
    /\ Len(groups.items) = 2
    /\ groups.items[1].measures = PressureMeasures
    /\ groups.items[2].measures = WeightMeasures
    /\ groups.items[1].date > groups.items[2].date
    /\ Planned.last_measurement_type = Str("blood_pressure")
    /\ Planned.last_date_time = Num(groups.items[1].date)

\* C19: when the query gives groups and none of them gives a record, no
\* exception is raised and main returns a failure sentinel, not 0.
C19_NoRecordsIsFailure ==
    (/\ pc \in Terminal
     /\ ~IsNone(groups)
     /\ Len(groups.items) > 0
     /\ Len(SyncData) = 0)
    => pc = "returned_fail"

\* the saves WithingsConfig() makes in a run: one when the file was missing
\* or its keys were not the template's
ConstructionSaves ==
    IF ~file0.exists \/ DOMAIN Stored # TemplateKeys THEN 1 ELSE 0

\* the positions of log with the event
At(ev) == {i \in DOMAIN log : log[i] = ev}

\* C20 as stated: a run that returns 0 has written the document once, as the
\* last thing it did.
C20_OneWriteAtEnd ==
    pc = "returned_ok" => (Count("save") = 1 /\ log[Len(log)] = "save")

\* C20, amended: a run that returns 0 writes the document when
\* WithingsConfig() is constructed if the file was missing or its keys were
\* not the template's, once at the end of WithingsAccount.__init__, and
\* once more as its last step, after every delivery attempt, with no
\* write between the first measurement query and that last step; the file
\* is then the document in memory.  A run that returns -1 makes the earlier
\* writes only.
C20_WritesOfARun ==
    /\ pc = "returned_ok" =>
        /\ Count("save") = ConstructionSaves + 2
        /\ log[Len(log)] = "save"
        /\ \A i \in At("save"), j \in At("getmeas:height") : i < j \/ i = Len(log)
        /\ \A i \in DOMAIN log : log[i] \in ExportEvents => i < Len(log)
        /\ file = ObjectFile(config)
    /\ pc = "returned_fail" =>
        /\ Count("save") = ConstructionSaves + 1
        /\ \A i \in At("save"), j \in At("getmeas:height") : i < j

C20_Witness ==
    /\ pc = "returned_ok"
    /\ ~file0.exists
    /\ Count("save") = 3
    /\ Logged("upload:weight:ok")
    /\ OnDisk["last_update_garmin"] = end_date

\* the absolute value
Abs(x) == IF x < 0 THEN -x ELSE x

\* the first measure of the type in the group
FirstOf(group, type) ==
    group.measures[CHOOSE i \in DOMAIN group.measures :
        /\ group.measures[i].type = type
        /\ \A j \in DOMAIN group.measures : group.measures[j].type = type => i <= j]

\* h hundredths is value * 10^unit rounded to 2 decimals
IsRound2(h, value, unit) ==
    IF unit >= -2 THEN h = value * Pow10(unit + 2)
    ELSE 2 * Abs(h * Pow10(-(unit + 2)) - value) <= Pow10(-(unit + 2))

\* the weight records of the returned list, each with the group it is from
WeightRecordOf(k, i) ==
    /\ SyncData[k]["type"] = Str("weight")
    /\ SyncData[k]["date_time"] = Num(groups.items[i].date)
    /\ Contains(groups.items[i], TYPE_WEIGHT)
    /\ LastAt(i)

\* C21: the bmi of a weight record is round(weight / height^2, 1), with
\* weight the raw value * 10^unit rounded to 2 decimals, when height > 0
\* (700 at unit -1 with 1.75 m: weight 70.0, bmi 22.9), and None exactly
\* when height is None or 0.
C21_Bmi ==
    Prepared =>
        \A k \in DOMAIN SyncData, i \in DOMAIN groups.items :
            WeightRecordOf(k, i) =>
                LET r == SyncData[k]
                    raw == FirstOf(groups.items[i], TYPE_WEIGHT)
                IN /\ r["weight"].tag = "float"
                   /\ IsRound2(r["weight"].n, raw.value, raw.unit)
                   /\ (r["bmi"] = None) <=> (height = None \/ height.n = 0)
                   /\ (height # None /\ height.n > 0) =>
                        \* bmi in tenths, weight and height in hundredths
                        2 * Abs(r["bmi"].n * height.n * height.n - r["weight"].n * 1000)
                            <= height.n * height.n
                   /\ (raw = Measure(TYPE_WEIGHT, 700, -1) /\ height = Flt(175)) =>
                        (r["weight"].n = 7000 /\ r["bmi"].n = 229)

C21_Witness ==
    /\ Prepared
    /\ height = Flt(175)
    /\ Len(groups.items) = 2
    /\ groups.items[1].measures = WeightMeasures
    /\ Contains(groups.items[2], TYPE_WEIGHT)
    /\ FirstOf(groups.items[2], TYPE_WEIGHT).unit = -3
    /\ groups.items[1].date # groups.items[2].date
    /\ Len(SyncData) = 2
    /\ SyncData[1]["bmi"].n = 229
    /\ SyncData[2]["weight"].n = 7046

\* C22: a weight record of a group with a hydration Measurement, whatever
\* its value (0 included), has percent_hydration =
\* round(hydration * 100 / weight, 2); percent_hydration is None only when
\* the group has no hydration Measurement.
C22_PercentHydration ==
    Prepared =>
        \A k \in DOMAIN SyncData, i \in DOMAIN groups.items :
            WeightRecordOf(k, i) =>
                LET r == SyncData[k]
                    group == groups.items[i]
                IN /\ (r["percent_hydration"] = None) => ~Contains(group, TYPE_HYDRATION)
                   /\ Contains(group, TYPE_HYDRATION) =>
                        LET raw == FirstOf(group, TYPE_HYDRATION) IN
                        /\ r["percent_hydration"] # None
                        /\ IsRound2(r["hydration"].n, raw.value, raw.unit)
                        \* all three in hundredths
                        /\ 2 * Abs(r["percent_hydration"].n * r["weight"].n
                                      - r["hydration"].n * 10000) <= r["weight"].n

\* the places of the record set with the classification
TypeIndexes(type) == {k \in DOMAIN SyncData : SyncData[k]["type"] = Str(type)}

\* the encoder holds file_info, file_creator, then per record of the
\* classification, in record-set order, a device_info and the record's
\* entry, then finish; there is no encoder when there is no such record
EncoderHolds(encoder, type, entry) ==
    LET part == TypeIndexes(type) IN
    IF part = {} THEN encoder = None
    ELSE /\ encoder # None
         /\ Len(encoder.messages) = 2 * Cardinality(part) + 3
         /\ encoder.messages[1].m = "file_info"
         /\ encoder.messages[2].m = "file_creator"
         /\ encoder.messages[Len(encoder.messages)].m = "finish"
         /\ \A k \in part :
                LET r == Cardinality({j \in part : j <= k})
                    info == encoder.messages[2 * r + 1]
                    written == encoder.messages[2 * r + 2]
                IN /\ info = [m |-> "device_info", timestamp |-> SyncData[k]["date_time"]]
                   /\ written.m = entry
                   /\ written.timestamp = SyncData[k]["date_time"]
                   /\ entry = "weight_scale" =>
                        /\ written.weight = SyncData[k]["weight"]
                        /\ written.percent_fat = SyncData[k]["fat_ratio"]
                        /\ written.bmi = SyncData[k]["bmi"]
                   /\ entry = "blood_pressure" =>
                        /\ written.diastolic_blood_pressure
                             = SyncData[k]["diastolic_blood_pressure"]
                        /\ written.systolic_blood_pressure
                             = SyncData[k]["systolic_blood_pressure"]
                        /\ written.heart_rate = SyncData[k]["heart_pulse"]

\* C23: generate_fitdata writes every record to exactly one encoder, the
\* one of its classification, in record-set order with one device-info
\* entry before each record; an encoder exists only for a non-empty
\* partition, and only an encoder that is not None is uploaded to Garmin.
C23_EncodersGetTheirRecords ==
    Prepared =>
        /\ EncoderHolds(fit[1], "weight", "weight_scale")
        /\ EncoderHolds(fit[2], "blood_pressure", "blood_pressure")
        /\ TypeIndexes("weight") \cup TypeIndexes("blood_pressure") = DOMAIN SyncData
        /\ TypeIndexes("weight") \cap TypeIndexes("blood_pressure") = {}
        /\ (Logged("upload:weight:ok") \/ Logged("upload:weight:failed")) => fit[1] # None
        /\ (Logged("upload:blood_pressure:ok") \/ Logged("upload:blood_pressure:failed"))
             => fit[2] # None

C23_Witness ==
    /\ pc = "returned_ok"
    /\ Cardinality(TypeIndexes("weight")) = 2
    /\ SyncData[1]["date_time"] # SyncData[2]["date_time"]
    /\ Len(fit[1].messages) = 7
    /\ fit[2] = None
    /\ Logged("garmin:login")
    /\ Logged("upload:weight:ok")
    /\ ~Logged("upload:blood_pressure:ok")
    /\ ~Logged("upload:blood_pressure:failed")

-----------------------------------------------------------------------------
(* Successive runs with Garmin delivery: the tool is started MaxRuns times, *)
(* and between two runs the user may weigh again, later on the day of the  *)
(* run that has ended.                                                     *)

LateOffset == 72000   \* time of day of a measurement taken after a run

RunArgs ==
    {a \in ArgSets : /\ ~a.reset_config
                     /\ ~a.no_upload
                     /\ a.garmin_username = Str("gu")
                     /\ IsNone(a.trainerroad_username)
                     /\ IsNone(a.output)}

RunFiles ==
    {ObjectFile(StoredTokens("code0", "at0", "rt0", "7", None)),
     ObjectFile(StoredTokens("code0", "", "", "", None)),
     ObjectFile(StoredTokens("", "", "", "", None))}

RunSources ==
    {s \in Sources : \A i \in DOMAIN s : s[i].measures = WeightMeasures}

InitRuns ==
    /\ file \in RunFiles
    /\ file0 = file
    /\ config = EmptyDict
    /\ pc = "start"
    /\ args \in RunArgs
    /\ today \in Days
    /\ start_date = None
    /\ end_date = None
    /\ source \in RunSources
    /\ height = None
    /\ groups = None
    /\ fit = <<None, None>>
    /\ log = <<>>
    /\ runs = 1

\* a group recorded at the source after the run of the day has ended
IsLate(g) == g.date % DaySeconds = LateOffset

Record ==
    /\ pc \in Terminal
    /\ runs < MaxRuns
    /\ \A i \in DOMAIN source : ~IsLate(source[i])
    /\ source' = Append(source, [date |-> Midnight(today) + LateOffset,
                                 measures |-> WeightMeasures])
    /\ UNCHANGED <<file, config, pc, args, today, start_date, end_date, height,
                   groups, fit, log, file0, runs>>

Rerun == Restart /\ args' \in RunArgs

NextRuns ==
    \/ Main_Config
    \/ get_authentication_code
    \/ get_access_token
    \/ refresh_access_token
    \/ Account_Save
    \/ Main_Fetch
    \/ Main_Prepare
    \/ Main_TrainerRoad
    \/ Main_Garmin
    \/ Main_Save
    \/ Record
    \/ Rerun

SpecRuns == InitRuns /\ [][NextRuns]_vars

\* this run has queried the source and got its answer
Queried == Logged("getmeas") /\ ~IsNone(groups)

\* C24: in successive runs with no explicit start date, the default end
\* date and successful deliveries, no measurement is skipped: a group
\* recorded after a run's query is in the window of the next run that
\* queries the source.
C24_NoGroupSkipped ==
    (/\ runs = 2
     /\ IsNone(args.from_date)
     /\ args.to_date = Num(Midnight(today))
     /\ ~IsNone(Watermark(Stored, "last_update_garmin"))
     /\ Queried)
    => \A i \in DOMAIN source :
          (/\ IsLate(source[i])
           \* the run before ended its window on its own day
           /\ Watermark(Stored, "last_update_garmin").n < source[i].date - LateOffset + DaySeconds)
          => \E j \in DOMAIN groups.items : groups.items[j] = source[i]

\* C25: the persisted watermark last_update_garmin never decreases, whatever
\* the date range of a run.
C25_WatermarkNeverDecreases ==
    ~IsNone(Watermark(Stored, "last_update_garmin")) =>
        /\ ~IsNone(Watermark(OnDisk, "last_update_garmin"))
        /\ Watermark(OnDisk, "last_update_garmin").n
             >= Watermark(Stored, "last_update_garmin").n

\* C29: a start from a persisted state whose access_token is empty, left
\* by an earlier run, does not send the stored authorization code again:
\* it asks for a fresh code first.
C29_StaleCodeNotResent ==
    (/\ runs = 2
     /\ ~Truthy(DictGet(Stored, "access_token", None))
     /\ Logged("token:authorization_code"))
    => Logged("authorize")

\* C26: the Garmin watermark is advanced only if every non-empty batch of
\* the run was delivered: when one upload fails the watermark is left as
\* it was.
C26_AdvanceNeedsEveryBatch ==
    (/\ pc \in {"save", "returned_ok"}
     /\ Logged("upload:weight:failed") \/ Logged("upload:blood_pressure:failed"))
    => /\ Watermark(config, "last_update_garmin") = Watermark(Stored, "last_update_garmin")
       /\ pc = "returned_ok" =>
            Watermark(OnDisk, "last_update_garmin") = Watermark(Stored, "last_update_garmin")

\* the list without its i-th group
Without(grps, i) == SubSeq(grps, 1, i - 1) \o SubSeq(grps, i + 1, Len(grps))

\* C27: a group with neither a weight nor a diastolic blood pressure
\* Measurement has no effect: the records are those of the list without
\* that group.
C27_UnmeasuredGroupNoEffect ==
    Prepared =>
        \A i \in DOMAIN groups.items :
            (/\ ~Contains(groups.items[i], TYPE_WEIGHT)
             /\ ~Contains(groups.items[i], TYPE_DIASTOLIC_BLOOD_PRESSURE))
            => SyncData = prepare_sync_data(height, Without(groups.items, i)).sync_data

TokenKeys == {"access_token", "refresh_token", "userid"}

\* C28: a token exchange that returns a non-zero status leaves
\* access_token, refresh_token and userid as they were, in memory and in
\* the document saved after the bootstrap (here: a run whose only exchange
\* is the refresh, and it fails).
C28_FailedExchangeKeepsTokens ==
    (/\ Logged("token:refresh_token")
     /\ ~Logged("token:authorization_code")
     /\ Logged("error:token"))
    => \A k \in TokenKeys :
          /\ DictGet(config, k, None) = DictGet(Stored, k, None)
          /\ DictGet(OnDisk, k, None) = DictGet(Stored, k, None)

\* garmin.login raised: the run ended at the Garmin sign-in
GarminLoginFailed == pc = "raised" /\ Logged("garmin:login")

\* C30: every run that gets a non-empty group list reaches the final save
\* and returns 0, whatever the options and the delivery outcomes (a failed
\* Garmin sign-in apart).
C30_EveryRunReturnsZero ==
    (pc \in Terminal /\ ~NoGroups /\ ~GarminLoginFailed)
    => /\ pc = "returned_ok"
       /\ log[Len(log)] = "save"

\* the run has made no token exchange, asked the operator for no code,
\* queried no measurement and contacted no delivery service; what main
\* computes after sync.py:397 is still unset
NoServiceContacted ==
    /\ Range(log) \subseteq {"save"}
    /\ start_date = None
    /\ end_date = None
    /\ height = None
    /\ groups = None
    /\ fit = <<None, None>>

\* C31: a run started with --reset-config contacts no external service and
\* makes no token exchange; it ends with exit status 0, the document in
\* memory and the document on disk being the template.
C31_ResetRunOnlyResets ==
    args.reset_config =>
        /\ NoServiceContacted
        /\ pc \in Terminal =>
            /\ pc = "exited_0"
            /\ config = config_template
            /\ ~load(file).raised
            /\ OnDisk = config_template

====
